---- MODULE Spec2Model ----
(***************************************************************************)
(* Model of src/bafa.py: the BAFA advisor spider (BAFASpider), its         *)
(* progress tracker (ProgressStatsCollector), the record validation        *)
(* (AdvisorData) and the process entry point (run_spider).                 *)
(*                                                                         *)
(* Callbacks run on Scrapy's single reactor thread, so every callback (and *)
(* every stretch of the parse generator between two yields) is one atomic  *)
(* action.  Detail fetches complete in any order.                          *)
(*                                                                         *)
(* Text is a sequence of tokens: "a", "b" (ordinary characters), " "       *)
(* (whitespace), "&nbsp;" (the entity, one token) and the one-token text   *)
(* <<"None">> for Python's None.                                           *)
(***************************************************************************)
EXTENDS Integers, Sequences, FiniteSets, TLC

VARIABLES
    test_mode,        \* SpiderConfig.test_mode
    phase,            \* position of the run: start, listing, parsing, crawling, closed, aborted
    listing,          \* outcome of the listing fetch: none, pending, ok, failed, abandoned
    page,             \* the data rows of the listing page as received
    rows,             \* parse(): the rows retained for processing
    idx,              \* parse(): next row the generator will look at
    req,              \* per retained row: the detail request and its outcome
    stats_collector,  \* BAFASpider.stats_collector (ProgressStatsCollector)
    items,            \* BAFASpider.items
    exit_status,      \* run_spider: running, returned (normal return), exit1 (sys.exit(1))
    report,           \* what save_results / log_statistics produced
    call_log,         \* tracker harness: the calls made on the tracker so far
    detail_page,      \* extraction harness: the detail page handed to extract_contact_details
    contact           \* extraction harness: the item extract_contact_details filled in

vars == <<test_mode, phase, listing, page, rows, idx, req, stats_collector,
          items, exit_status, report, call_log, detail_page, contact>>

crawl_vars == <<test_mode, phase, listing, page, rows, idx, req, items,
                exit_status, report>>

----------------------------------------------------------------------------
(* Bounds of the model *)

MaxRows == 2      \* longest listing page of the crawl specification

MaxPage == 6      \* longest listing page of the listing-only specification

MaxCalls == 4     \* tracker harness: number of calls on one tracker

MaxText == 5      \* extraction harness: tokens of a detail page's text

MaxLinks == 2     \* extraction harness: hyperlinks of a detail page

(* Program constants *)

TestLimit == 5         \* rows[:5] / total_rows = 5

MinCells == 4          \* len(columns) >= 4

ExtractAttempts == 3   \* stop_after_attempt(3)

RETRY_TIMES == 3       \* custom_settings['RETRY_TIMES'] (= SpiderConfig.max_retries)

----------------------------------------------------------------------------
(* Text cleaning *)

NoText == <<"None">>

ReplaceNbsp(t) == [k \in 1..Len(t) |-> IF t[k] = "&nbsp;" THEN " " ELSE t[k]]

\* After strip().split() and ' '.join(): a blank survives only as the first
\* blank after a word that is followed by another word.
KeepChar(t, k) ==
    \/ t[k] # " "
    \/ /\ k > 1
       /\ t[k-1] # " "
       /\ \E m \in (k+1)..Len(t) : t[m] # " "

RECURSIVE KeepFrom(_, _)
KeepFrom(t, k) ==
    IF k > Len(t) THEN <<>>
    ELSE (IF KeepChar(t, k) THEN <<t[k]>> ELSE <<>>) \o KeepFrom(t, k + 1)

clean_text(text) ==
    IF text = NoText \/ text = <<>> THEN <<>>
    ELSE KeepFrom(ReplaceNbsp(text), 1)

----------------------------------------------------------------------------
(* ProgressStatsCollector *)

NewStatsCollector ==
    [total_items |-> 0, processed_items |-> 0, failed_items |-> 0,
     start_time |-> "None", pbar |-> "None", errors |-> <<>>]

\* `if self.pbar:` -- pbar is None until set_total; a tqdm bar's truth value
\* is tqdm.__bool__, i.e. total > 0 (open or closed alike).
PbarTruthy(sc) == sc.pbar # "None" /\ sc.total_items > 0

set_total(sc, total) ==
    [sc EXCEPT !.total_items = total, !.start_time = "set", !.pbar = "open"]

increment_unguarded(sc, success) ==
    [sc EXCEPT !.processed_items = @ + 1,
               !.failed_items = IF success THEN @ ELSE @ + 1]

increment(sc, success) ==
    IF PbarTruthy(sc)
    THEN [sc EXCEPT !.processed_items = @ + 1,
                    !.failed_items = IF success THEN @ ELSE @ + 1]
    ELSE sc

add_error(sc, error) == [sc EXCEPT !.errors = Append(@, error)]

finish_unguarded(sc) == [sc EXCEPT !.pbar = "closed"]

finish(sc) ==
    IF PbarTruthy(sc) THEN [sc EXCEPT !.pbar = "closed"] ELSE sc

----------------------------------------------------------------------------
(* AdvisorData *)

\* Beratername: str = Field(..., min_length=1); every other field has a
\* default and validators that repair instead of rejecting.
AdvisorDataAcceptsAnyName(item_data) == TRUE

AdvisorDataAccepts(item_data) == Len(item_data.Beratername) >= 1

----------------------------------------------------------------------------
(* Listing rows *)

\* A row of the listing table: td = number of cells, name = text of the first
\* cell, href = what the link of the 4th cell is ("ok", "none" = no link,
\* "bad" = a target that urljoin / scrapy.Request refuse with ValueError),
\* raises = the selector raises while the row is extracted.
R_ok     == [td |-> 4, name |-> <<" ", "a", "&nbsp;", " ", "b", " ">>, href |-> "ok", raises |-> FALSE]

R_blank  == [td |-> 4, name |-> <<"&nbsp;", " ">>, href |-> "ok", raises |-> FALSE]

R_short  == [td |-> 3, name |-> <<"a">>, href |-> "none", raises |-> FALSE]

R_nolink == [td |-> 5, name |-> NoText, href |-> "none", raises |-> FALSE]

R_badhref == [td |-> 4, name |-> <<"a">>, href |-> "bad", raises |-> FALSE]

R_raises == [td |-> 4, name |-> <<"a">>, href |-> "ok", raises |-> TRUE]

RowInputs == {R_ok, R_blank, R_short, R_nolink, R_badhref, R_raises}

ListingRowInputs == {R_ok, R_blank, R_short, R_nolink}

SeqsUpTo(S, n) == UNION {[1..k -> S] : k \in 0..n}

Pages == SeqsUpTo(RowInputs, MaxRows)

LongPages == SeqsUpTo(ListingRowInputs, MaxPage)

Take(s, n) == SubSeq(s, 1, IF Len(s) < n THEN Len(s) ELSE n)

\* A row that yields a detail request: >= 4 cells, extraction does not raise,
\* a usable link in the 4th cell.
ValidRow(row) == row.td >= MinCells /\ ~row.raises /\ row.href = "ok"

----------------------------------------------------------------------------
(* BAFASpider.extract_row_data, with its retry decorator *)

RECURSIVE AddErrors(_, _, _)
AddErrors(sc, error, n) ==
    IF n = 0 THEN sc ELSE AddErrors(add_error(sc, error), error, n - 1)

NoItem == [Beratername |-> <<>>, Detail_URL |-> 0]

\* Every attempt on a raising row logs, calls add_error and raises
\* DataExtractionError; after the last attempt retry_error_callback's value
\* (None) is returned instead of raising.
extract_row_data(sc, row) ==
    IF row.raises
    THEN [sc |-> AddErrors(sc, "row", ExtractAttempts), found |-> FALSE, item |-> NoItem]
    ELSE IF row.td >= MinCells
    THEN [sc |-> sc, found |-> TRUE,
          item |-> [Beratername |-> clean_text(row.name), Detail_URL |-> 0]]
    ELSE [sc |-> sc, found |-> FALSE, item |-> NoItem]

----------------------------------------------------------------------------
(* BAFASpider.parse: the generator, run from row i to its next yield *)

RECURSIVE ParseRun(_, _, _)
ParseRun(sc, rs, i) ==
    IF i > Len(rs) THEN [sc |-> sc, idx |-> i, yielded |-> FALSE, item |-> NoItem]
    ELSE LET r == extract_row_data(sc, rs[i]) IN
         IF r.found /\ rs[i].href = "ok"
         THEN [sc |-> r.sc, idx |-> i + 1, yielded |-> TRUE,
               item |-> [r.item EXCEPT !.Detail_URL = i]]
         ELSE IF r.found /\ rs[i].href = "bad"
         THEN ParseRun(increment(r.sc, FALSE), rs, i + 1)
         ELSE ParseRun(r.sc, rs, i + 1)

NoRequest == [st |-> "none", retries |-> 0, item |-> NoItem]

\* The state after the generator ran from row i of rs with tracker sc.
ParseStep(sc, rs, i, rq) ==
    LET r == ParseRun(sc, rs, i) IN
    /\ stats_collector' = r.sc
    /\ idx' = r.idx
    /\ req' = IF r.yielded
              THEN [rq EXCEPT ![r.idx - 1] = [st |-> "pending", retries |-> 0, item |-> r.item]]
              ELSE rq
    /\ phase' = IF r.yielded THEN "parsing" ELSE "crawling"

\* rows = response.xpath(...); in test mode rows = rows[:5]
retained_rows_all(p) == p

retained_rows(p) == IF test_mode THEN Take(p, TestLimit) ELSE p

\* total_rows = len(rows); in test mode total_rows = 5
total_rows(p) == IF test_mode THEN TestLimit ELSE Len(p)

parse_without_total(p) ==
    /\ page' = p
    /\ rows' = retained_rows(p)
    /\ ParseStep(stats_collector, retained_rows(p), 1,
                 [i \in 1..Len(retained_rows(p)) |-> NoRequest])

parse(p) ==
    /\ page' = p
    /\ rows' = retained_rows(p)
    /\ ParseStep(set_total(stats_collector, total_rows(p)), retained_rows(p), 1,
                 [i \in 1..Len(retained_rows(p)) |-> NoRequest])

----------------------------------------------------------------------------
(* BAFASpider.parse_details and handle_error *)

\* kind: what the detail response holds -- "nontext" (response.xpath raises),
\* "empty" (no text in the detail region), "content".
parse_details_appends_first(sc, its, item_data, kind) ==
    IF kind = "nontext"
    THEN [sc |-> increment(sc, FALSE), items |-> its, outcome |-> "error"]
    ELSE IF kind = "empty"
    THEN [sc |-> sc, items |-> its, outcome |-> "skipped"]
    ELSE IF AdvisorDataAccepts(item_data)
    THEN [sc |-> increment(sc, TRUE), items |-> Append(its, item_data), outcome |-> "success"]
    ELSE [sc |-> increment(sc, FALSE), items |-> Append(its, item_data), outcome |-> "rejected"]

parse_details(sc, its, item_data, kind) ==
    IF kind = "nontext"
    THEN [sc |-> increment(sc, FALSE), items |-> its, outcome |-> "error"]
    ELSE IF kind = "empty"
    THEN [sc |-> sc, items |-> its, outcome |-> "skipped"]
    ELSE IF AdvisorDataAccepts(item_data)
    THEN [sc |-> increment(sc, TRUE), items |-> Append(its, item_data), outcome |-> "success"]
    \* pydantic's error is not the module's own ValidationError, so it is the
    \* outer `except Exception` that counts the rejection
    ELSE [sc |-> increment(sc, FALSE), items |-> its, outcome |-> "rejected"]

handle_error_only_logs(sc) == add_error(sc, "fetch")

handle_error(sc) == increment(add_error(sc, "fetch"), FALSE)

----------------------------------------------------------------------------
(* BAFASpider.spider_closed, save_results, log_statistics *)

\* status: what save_results did; received: the number of records of
\* self.items it was called with; records: the rows written to the workbook;
\* failed_shown / error_file: what log_statistics put out; success_rate:
\* the "Success rate" it logs, in hundredths of a percent.
NoReport ==
    [status |-> "none", received |-> 0, records |-> 0, failed_shown |-> FALSE,
     error_file |-> FALSE, success_rate |-> 0]

\* f"{x:.2f}" of x = num / den * 100, as a number of hundredths: the nearest
\* one (\div rounds down, also below zero; no value of the model is a tie).
Hundredths(num, den) == (2 * 10000 * num + den) \div (2 * den)

\* (len(df) - self.stats_collector.failed_items) / len(df) * 100
SuccessRate(n_records, failed_items) ==
    Hundredths(n_records - failed_items, n_records)

save_results(sc, its, write_ok) ==
    IF its = <<>>
    THEN [NoReport EXCEPT !.status = "no_data"]
    ELSE IF ~write_ok
    THEN [NoReport EXCEPT !.status = "save_failed", !.received = Len(its)]
    ELSE [status |-> "saved", received |-> Len(its), records |-> Len(its),
          failed_shown |-> TRUE, error_file |-> (sc.errors # <<>>),
          success_rate |-> SuccessRate(Len(its), sc.failed_items)]

spider_closed_only_finishes(write_ok) ==
    /\ stats_collector' = finish(stats_collector)
    /\ report' = report

spider_closed(write_ok) ==
    /\ stats_collector' = finish(stats_collector)
    /\ report' = save_results(finish(stats_collector), items, write_ok)

----------------------------------------------------------------------------
(* BAFASpider.extract_contact_details: phone and website *)

\* content (the cleaned fragments joined by blanks) is a sequence of tokens:
\* "Tel.:" and "Fax" (the labels), "F" (any other capital F), "1" (any other
\* character), " ".  The tokens that begin with the character F:
FTokens == {"F", "Fax"}

ContentTokens == {"Tel.:", "Fax", "F", "1", " "}

\* A hyperlink of the detail region: its target, whether the target contains
\* "http", whether it contains 'bafa.bund.de'.
L_ext1 == [href |-> "https://one.example", http |-> TRUE, own |-> FALSE]

L_ext2 == [href |-> "http://two.example", http |-> TRUE, own |-> FALSE]

L_own == [href |-> "https://www.bafa.bund.de/x", http |-> TRUE, own |-> TRUE]

L_rel == [href |-> "/kontakt", http |-> FALSE, own |-> FALSE]

LinkInputs == {L_ext1, L_ext2, L_own, L_rel}

\* Joined cleaned fragments: not empty, and cleaning them changes nothing.
Contents ==
    {t \in SeqsUpTo(ContentTokens, MaxText) : t # <<>> /\ clean_text(t) = t}

DetailPages == [content : Contents, links : SeqsUpTo(LinkInputs, MaxLinks)]

NoDetailPage == [content |-> <<>>, links |-> <<>>]

NoContact == [done |-> FALSE, Telefon |-> <<>>, Website |-> ""]

\* re.search(r'Tel\.: ([^F]+)', content): the positions where the pattern
\* matches -- the label, a blank, then at least one character that is not F.
PhoneMatches(content) ==
    {k \in 1..Len(content) :
        /\ content[k] = "Tel.:"
        /\ k + 2 <= Len(content)
        /\ content[k + 1] = " "
        /\ content[k + 2] \notin FTokens}

Min(S) == CHOOSE x \in S : \A y \in S : x <= y

\* group(1): from position k on, up to the first character F or the end.
RECURSIVE RunWithoutF(_, _)
RunWithoutF(content, k) ==
    IF k > Len(content) \/ content[k] \in FTokens THEN <<>>
    ELSE <<content[k]>> \o RunWithoutF(content, k + 1)

ExtractPhone(content) ==
    IF PhoneMatches(content) = {} THEN <<>>
    ELSE clean_text(RunWithoutF(content, Min(PhoneMatches(content)) + 2))

\* xpath('...//a[contains(@href, "http")]/@href').get(): the first target
\* that contains "http", or None; it is stored unless it contains the own domain.
HttpLinks(links) == {k \in 1..Len(links) : links[k].http}

ExtractWebsite(links) ==
    IF HttpLinks(links) = {} THEN ""
    ELSE IF links[Min(HttpLinks(links))].own THEN ""
    ELSE links[Min(HttpLinks(links))].href

\* The address, fax, e-mail and id steps write other keys of the item only.
extract_contact_details(item, dp) ==
    [item EXCEPT !.done = TRUE,
                 !.Telefon = IF PhoneMatches(dp.content) = {} THEN @
                             ELSE ExtractPhone(dp.content),
                 !.Website = IF ExtractWebsite(dp.links) = "" THEN @
                             ELSE ExtractWebsite(dp.links)]

----------------------------------------------------------------------------
(* The crawl *)

Init ==
    /\ test_mode \in BOOLEAN
    /\ phase = "start"
    /\ listing = "none"
    /\ page = <<>>
    /\ rows = <<>>
    /\ idx = 1
    /\ req = <<>>
    /\ stats_collector = NewStatsCollector
    /\ items = <<>>
    /\ exit_status = "running"
    /\ report = NoReport
    /\ call_log = <<>>
    /\ detail_page = NoDetailPage
    /\ contact = NoContact

Pending == {i \in 1..Len(req) : req[i].st = "pending"}

\* run_spider: process.crawl / process.start; the listing request goes out.
StartRequests ==
    /\ phase = "start"
    /\ phase' = "listing"
    /\ listing' = "pending"
    /\ UNCHANGED <<test_mode, page, rows, idx, req, stats_collector, items,
                   exit_status, report, call_log, detail_page, contact>>

\* run_spider: setting up or starting the crawler process raises.
ProcessStartFails ==
    /\ phase = "start"
    /\ phase' = "aborted"
    /\ exit_status' = "exit1"
    /\ UNCHANGED <<test_mode, listing, page, rows, idx, req, stats_collector,
                   items, report, call_log, detail_page, contact>>

ListingResponse(pages) ==
    /\ phase = "listing"
    /\ listing' = "ok"
    /\ \E p \in pages : parse(p)
    /\ UNCHANGED <<test_mode, items, exit_status, report, call_log, detail_page, contact>>

ListingArrives == ListingResponse(Pages)

ListingArrivesLong == ListingResponse(LongPages)

\* The listing request fails for good: it has no errback, no callback runs.
ListingFails ==
    /\ phase = "listing"
    /\ listing' = "failed"
    /\ phase' = "crawling"
    /\ UNCHANGED <<test_mode, page, rows, idx, req, stats_collector, items,
                   exit_status, report, call_log, detail_page, contact>>

ParseResume ==
    /\ phase = "parsing"
    /\ ParseStep(stats_collector, rows, idx, req)
    /\ UNCHANGED <<test_mode, listing, page, rows, items, exit_status, report, call_log, detail_page, contact>>

FetchRetry_one_more(i) ==
    /\ phase \in {"parsing", "crawling"}
    /\ i \in Pending
    /\ req[i].retries <= RETRY_TIMES
    /\ req' = [req EXCEPT ![i].retries = @ + 1]
    /\ UNCHANGED <<test_mode, phase, listing, page, rows, idx, stats_collector,
                   items, exit_status, report, call_log, detail_page, contact>>

\* RetryMiddleware: a failed download is scheduled again, RETRY_TIMES times
\* at most (retries, in addition to the first download).
FetchRetry(i) ==
    /\ phase \in {"parsing", "crawling"}
    /\ i \in Pending
    /\ req[i].retries < RETRY_TIMES
    /\ req' = [req EXCEPT ![i].retries = @ + 1]
    /\ UNCHANGED <<test_mode, phase, listing, page, rows, idx, stats_collector,
                   items, exit_status, report, call_log, detail_page, contact>>

\* errback: the download failed for good (retries used up, or a failure
\* that is not retried).
FetchFails(i) ==
    /\ phase \in {"parsing", "crawling"}
    /\ i \in Pending
    /\ stats_collector' = handle_error(stats_collector)
    /\ req' = [req EXCEPT ![i].st = "failed"]
    /\ UNCHANGED <<test_mode, phase, listing, page, rows, idx, items,
                   exit_status, report, call_log, detail_page, contact>>

DetailKinds == {"nontext", "empty", "content"}

DetailResponse(i) ==
    /\ phase \in {"parsing", "crawling"}
    /\ i \in Pending
    /\ \E kind \in DetailKinds :
          LET r == parse_details(stats_collector, items, req[i].item, kind) IN
          /\ stats_collector' = r.sc
          /\ items' = r.items
          /\ req' = [req EXCEPT ![i].st = r.outcome]
    /\ UNCHANGED <<test_mode, phase, listing, page, rows, idx, exit_status,
                   report, call_log, detail_page, contact>>

\* The engine is idle: generator exhausted, nothing outstanding.
SpiderIdle ==
    /\ phase = "crawling"
    /\ Pending = {}
    /\ \E write_ok \in BOOLEAN : spider_closed(write_ok)
    /\ phase' = "closed"
    /\ exit_status' = "returned"
    /\ UNCHANGED <<test_mode, listing, page, rows, idx, req, items, call_log, detail_page, contact>>

\* The process is interrupted with work outstanding: what is in flight is
\* abandoned and the spider is closed.
Interrupt ==
    /\ \/ phase \in {"listing", "parsing"}
       \/ phase = "crawling" /\ Pending # {}
    /\ listing' = IF listing = "pending" THEN "abandoned" ELSE listing
    /\ req' = [i \in 1..Len(req) |->
                 IF req[i].st = "pending" THEN [req[i] EXCEPT !.st = "abandoned"] ELSE req[i]]
    /\ \E write_ok \in BOOLEAN : spider_closed(write_ok)
    /\ phase' = "closed"
    /\ exit_status' = "returned"
    /\ UNCHANGED <<test_mode, page, rows, idx, items, call_log, detail_page, contact>>

Retried == \E i \in 1..Len(req) : FetchRetry(i)

Failed == \E i \in 1..Len(req) : FetchFails(i)

Responded == \E i \in 1..Len(req) : DetailResponse(i)

Next ==
    \/ StartRequests
    \/ ProcessStartFails
    \/ ListingArrives
    \/ ListingFails
    \/ ParseResume
    \/ Retried
    \/ Failed
    \/ Responded
    \/ SpiderIdle
    \/ Interrupt

Spec == Init /\ [][Next]_vars

----------------------------------------------------------------------------
(* The listing phase alone, in test mode, on long pages *)

InitListing == Init /\ test_mode = TRUE

NextListing ==
    \/ StartRequests
    \/ ListingArrivesLong
    \/ ParseResume

SpecListing == InitListing /\ [][NextListing]_vars

----------------------------------------------------------------------------
(* The tracker alone: any sequence of calls on a fresh ProgressStatsCollector *)

TotalInputs == 0..2

\* One call on the tracker: op is the method, sc the tracker it leaves.
TrackerCall(op, sc) ==
    /\ Len(call_log) < MaxCalls
    /\ stats_collector' = sc
    /\ call_log' = Append(call_log, op)
    /\ UNCHANGED <<crawl_vars, detail_page, contact>>

CallSetTotal ==
    \E n \in TotalInputs : TrackerCall("set_total", set_total(stats_collector, n))

CallIncrement ==
    \E success \in BOOLEAN : TrackerCall("increment", increment(stats_collector, success))

CallAddError == TrackerCall("add_error", add_error(stats_collector, "msg"))

CallFinish == TrackerCall("finish", finish(stats_collector))

NextTracker ==
    \/ CallSetTotal
    \/ CallIncrement
    \/ CallAddError
    \/ CallFinish

InitTracker == Init /\ test_mode = FALSE

SpecTracker == InitTracker /\ [][NextTracker]_vars

----------------------------------------------------------------------------
(* Contact extraction alone, on one detail page *)

InitExtract ==
    /\ test_mode = FALSE
    /\ phase = "start"
    /\ listing = "none"
    /\ page = <<>>
    /\ rows = <<>>
    /\ idx = 1
    /\ req = <<>>
    /\ stats_collector = NewStatsCollector
    /\ items = <<>>
    /\ exit_status = "running"
    /\ report = NoReport
    /\ call_log = <<>>
    /\ detail_page \in DetailPages
    /\ contact = NoContact

ExtractContactDetails ==
    /\ ~contact.done
    /\ contact' = extract_contact_details(contact, detail_page)
    /\ UNCHANGED <<crawl_vars, stats_collector, call_log, detail_page>>

NextExtract == ExtractContactDetails

SpecExtract == InitExtract /\ [][NextExtract]_vars

----------------------------------------------------------------------------
(* Properties *)

Dispatched == {i \in 1..Len(req) : req[i].st # "none"}

Handled(i) == req[i].st \in {"success", "rejected", "error", "skipped", "failed"}

\* A step in which the detail fetch of row i gets its callback or errback.
Handles(i) == req[i].st = "pending" /\ Len(req') = Len(req) /\ Handled(i)'

LastCall == call_log[Len(call_log)]

Called(op) == \E k \in 1..Len(call_log) : call_log[k] = op

\* A step of the tracker harness that makes the call op.
Calls(op) == Len(call_log') = Len(call_log) + 1 /\ LastCall' = op

\* C1: every dispatched detail fetch, when its callback or errback runs,
\* records exactly one outcome in the tracker (processed count + 1),
\* whatever the detail page holds.
C1_EveryDetailFetchRecordsOneOutcome ==
    [][\A i \in 1..Len(req) :
          Handles(i) =>
             stats_collector'.processed_items = stats_collector.processed_items + 1]_vars

\* C2: the terminal failure of a detail fetch (errback) adds one to the
\* processed count, one to the failed count, and leaves the result set as
\* it was.
C2_TerminalFailureCounted ==
    [][\A i \in 1..Len(req) :
          (req[i].st = "pending" /\ Len(req') = Len(req) /\ req'[i].st = "failed") =>
             /\ stats_collector'.processed_items = stats_collector.processed_items + 1
             /\ stats_collector'.failed_items = stats_collector.failed_items + 1
             /\ items' = items]_vars

\* C2 witness: a fetch failed after all its retries, with a record already
\* in the result set.
C2_Witness ==
    /\ items # <<>>
    /\ \E i \in 1..Len(req) : req[i].st = "failed" /\ req[i].retries = RETRY_TIMES

\* C3: every record of the result set has a non-empty name.
C3_NoEmptyNameInItems ==
    \A k \in 1..Len(items) : items[k].Beratername # <<>>

\* C3 witness: a row whose name text is non-empty but cleans to the empty
\* string went through validation and was rejected, next to an accepted one.
C3_Witness ==
    /\ items # <<>>
    /\ \E i \in 1..Len(req) :
          /\ req[i].st = "rejected"
          /\ rows[i].name # <<>>
          /\ clean_text(rows[i].name) = <<>>

\* C4: a run whose listing fetch failed ends aborted with an error, never
\* like a successful crawl that collected nothing.
C4_ListingFailureAborts ==
    (phase = "closed" /\ listing = "failed") =>
        (exit_status = "exit1" /\ report.status # "no_data")

\* C5: a listing page with zero data rows dispatches nothing, ends with an
\* empty result set, tracker total 0, failed count 0, and no failed run.
C5_ZeroRows ==
    (listing = "ok" /\ page = <<>>) =>
        /\ Dispatched = {}
        /\ phase \in {"crawling", "closed"}
        /\ items = <<>>
        /\ stats_collector.total_items = 0
        /\ stats_collector.failed_items = 0
        /\ exit_status # "exit1"

NumValid(p) == Cardinality({k \in 1..Len(p) : ValidRow(p[k])})

\* C6 as stated: in test mode at most 5 detail fetches are dispatched, and
\* exactly 5 once the page is parsed if the page has at least 5 valid rows.
C6_Original ==
    test_mode =>
        /\ Cardinality(Dispatched) <= TestLimit
        /\ (phase = "crawling" /\ listing = "ok" /\ NumValid(page) >= TestLimit)
              => Cardinality(Dispatched) = TestLimit

\* C6 amended: in test mode at most 5 detail fetches are dispatched, and
\* exactly 5 once the page is parsed if its first 5 rows are all valid.
C6_TestModeDispatch ==
    test_mode =>
        /\ Cardinality(Dispatched) <= TestLimit
        /\ (phase = "crawling" /\ listing = "ok" /\ Len(page) >= TestLimit
              /\ \A k \in 1..TestLimit : ValidRow(page[k]))
              => Cardinality(Dispatched) = TestLimit

\* C6 witness: a page of more than 5 valid rows, parsed in test mode.
C6_Witness ==
    /\ test_mode
    /\ phase = "crawling"
    /\ Len(page) > TestLimit
    /\ NumValid(page) = Len(page)
    /\ Cardinality(Dispatched) = TestLimit

\* C7: once the listing page is parsed the tracker total is the number of
\* rows retained for processing.
C7_TotalIsRetainedRows ==
    listing = "ok" => stats_collector.total_items = Len(rows)

\* C8: a detail response that is rejected by validation or errors during
\* extraction appends no record, adds one to the failed count and appends a
\* message to the tracker's error log.
C8_RejectionLogged ==
    [][\A i \in 1..Len(req) :
          (req[i].st = "pending" /\ Len(req') = Len(req)
              /\ req'[i].st \in {"rejected", "error"}) =>
             /\ items' = items
             /\ stats_collector'.failed_items = stats_collector.failed_items + 1
             /\ Len(stats_collector'.errors) = Len(stats_collector.errors) + 1]_vars

\* C9: increment called before any set_total leaves the tracker as it was.
C9_IncrementBeforeSetTotal ==
    [][(Calls("increment") /\ ~Called("set_total")) =>
          stats_collector' = stats_collector]_vars

\* C9 witness: increment was called on a tracker that never saw set_total,
\* after an add_error.
C9_Witness ==
    /\ Len(call_log) >= 2
    /\ LastCall = "increment"
    /\ ~Called("set_total")
    /\ stats_collector.errors # <<>>

\* C10: add_error called before any set_total leaves the tracker as it was.
C10_AddErrorBeforeSetTotal ==
    [][(Calls("add_error") /\ ~Called("set_total")) =>
          stats_collector' = stats_collector]_vars

\* C11: finish() called before any set_total leaves the tracker as it was,
\* and a finish() that directly follows a finish() changes nothing (total,
\* processed, failed, errors, progress bar): twice is the same as once.
C11_FinishIdempotent ==
    [][/\ (Calls("finish") /\ ~Called("set_total")) =>
              stats_collector' = stats_collector
       /\ (Calls("finish") /\ call_log # <<>> /\ LastCall = "finish") =>
              stats_collector' = stats_collector]_vars

\* C11 witness: set_total with a positive total, an outcome, then finish
\* twice in a row; the progress bar is closed.
C11_Witness ==
    /\ Len(call_log) >= 4
    /\ LastCall = "finish"
    /\ call_log[Len(call_log) - 1] = "finish"
    /\ stats_collector.pbar = "closed"
    /\ stats_collector.processed_items > 0

\* C12: a run that ends, idle or interrupted, has called finish() and handed
\* the whole result set to save_results, in the step that closes the spider
\* and only there; afterwards neither the result set nor the report changes.
C12_HandoverOnce ==
    [][/\ (phase # "closed" /\ phase' = "closed") =>
              /\ report.status = "none"
              /\ report'.status # "none"
              /\ report'.received = Len(items)
              /\ items' = items
              /\ stats_collector'.total_items > 0 => stats_collector'.pbar = "closed"
       /\ exit_status' = "returned" => phase' = "closed"
       /\ report' # report => phase # "closed" /\ phase' = "closed"
       /\ phase = "closed" => items' = items]_vars

\* C12 witness: the run was interrupted with a fetch in flight and the
\* records accumulated so far were saved.
C12_Witness ==
    /\ phase = "closed"
    /\ \E i \in 1..Len(req) : req[i].st = "abandoned"
    /\ items # <<>>
    /\ report.status = "saved"
    /\ report.records = Len(items)

\* C13: a run that completed with a row-level failure (and whose export did
\* not itself fail) shows the failed count and, if the error log is not
\* empty, has written the error-log artifact -- also with no success at all.
C13_FailuresReported ==
    (phase = "closed" /\ stats_collector.failed_items >= 1
        /\ report.status # "save_failed") =>
        /\ report.failed_shown
        /\ stats_collector.errors # <<>> => report.error_file

\* One step, seen from the detail fetches: none has been downloaded more than
\* `ceiling` times; the errback of a fetch reports one failure and is final;
\* a retried download and an accepted response report no failure.
C14_Step(ceiling) ==
    \A i \in 1..Len(req') :
        /\ req'[i].retries + 1 <= ceiling
        /\ Len(req) = Len(req') =>
              /\ (req[i].st = "pending" /\ req'[i].st = "failed") =>
                    /\ stats_collector'.failed_items = stats_collector.failed_items + 1
                    /\ Len(stats_collector'.errors) = Len(stats_collector.errors) + 1
              /\ req[i].st = "failed" => req'[i].st = "failed"
              /\ req'[i].retries # req[i].retries => stats_collector' = stats_collector
              /\ (req[i].st = "pending" /\ req'[i].st = "success") =>
                    /\ stats_collector'.failed_items = stats_collector.failed_items
                    /\ stats_collector'.errors = stats_collector.errors

\* C14 as stated: a detail fetch is attempted at most 3 times in total, its
\* permanent failure is reported once, a fetch that succeeds is not counted
\* as failed.
C14_Original == [][C14_Step(RETRY_TIMES)]_vars

\* C14 amended: a detail fetch is attempted at most 4 times in total (the
\* first download plus RETRY_TIMES = 3 retries), its permanent failure is
\* reported once, a fetch that succeeds is not counted as failed.
C14_AttemptCeiling == [][C14_Step(RETRY_TIMES + 1)]_vars

\* C14 witness: one fetch failed for good after all its retries, another
\* succeeded on a retry.
C14_Witness ==
    /\ \E i \in 1..Len(req) : req[i].st = "failed" /\ req[i].retries = RETRY_TIMES
    /\ \E j \in 1..Len(req) : req[j].st = "success" /\ req[j].retries >= 1

\* Rows the generator has passed whose extraction raised / whose link raised.
RaisedRows == {j \in 1..Len(rows) : j < idx /\ rows[j].raises}

BadLinkRows ==
    {j \in 1..Len(rows) :
        j < idx /\ ~rows[j].raises /\ rows[j].td >= MinCells /\ rows[j].href = "bad"}

FailedDetails == {i \in 1..Len(req) : req[i].st \in {"error", "rejected", "failed"}}

\* C15: once the listing is parsed through, every row whose extraction raised
\* (listing row or detail fields) is counted as failed exactly once, and the
\* rows after it were still processed.
C15_ExtractionFailureCounted ==
    (listing = "ok" /\ phase = "crawling") =>
        /\ idx = Len(rows) + 1
        /\ stats_collector.failed_items =
              Cardinality(RaisedRows) + Cardinality(BadLinkRows) + Cardinality(FailedDetails)

\* C16 as stated: nothing is dispatched and no outcome is recorded before
\* the listing response was received, every row extracted, the total set.
C16_Original ==
    (Dispatched # {} \/ stats_collector.processed_items > 0) =>
        /\ listing = "ok"
        /\ stats_collector.pbar # "None"
        /\ idx = Len(rows) + 1

\* C16 amended: nothing is dispatched and no outcome is recorded before the
\* listing response was received and the total set; a row's fetch is
\* dispatched once that row is extracted, not once all rows are.
C16_ListingBeforeDetails ==
    (Dispatched # {} \/ stats_collector.processed_items > 0) =>
        /\ listing = "ok"
        /\ stats_collector.pbar # "None"
        /\ \A i \in Dispatched : i < idx

\* C16 witness: a detail outcome was recorded while a row of the listing
\* was still to be extracted.
C16_Witness ==
    /\ phase = "parsing"
    /\ idx <= Len(rows)
    /\ \E i \in 1..Len(req) : Handled(i)
    /\ stats_collector.processed_items > 0

\* C17: after k detail outcomes, s of them successes, the processed count is
\* k, the failed count k - s and the result set holds s records (failures
\* the listing parse itself counted are set apart).
C17_NoLostUpdate ==
    LET k == Cardinality({i \in 1..Len(req) : Handled(i)})
        s == Cardinality({i \in 1..Len(req) : req[i].st = "success"})
        b == Cardinality(BadLinkRows)
    IN /\ stats_collector.processed_items = k + b
       /\ stats_collector.failed_items = (k - s) + b
       /\ Len(items) = s

\* C20: the result set holds processed - failed records, and
\* failed <= processed <= total.
C20_CountersConsistent ==
    /\ Len(items) = stats_collector.processed_items - stats_collector.failed_items
    /\ stats_collector.failed_items <= stats_collector.processed_items
    /\ stats_collector.processed_items <= stats_collector.total_items

\* C20 witness: every row of a full-mode page has its outcome, a success
\* and a failure among them.
C20_Witness ==
    /\ ~test_mode
    /\ items # <<>>
    /\ stats_collector.failed_items > 0
    /\ stats_collector.processed_items = stats_collector.total_items

\* The links that contain "http" and not the site's own domain.
ExternalLinks(links) == {k \in 1..Len(links) : links[k].http /\ ~links[k].own}

\* C18: the extracted website is the target of the first hyperlink that
\* contains "http" and not the site's own domain, and is empty only when
\* there is no such hyperlink.
C18_FirstExternalLink ==
    contact.done =>
        contact.Website =
            IF ExternalLinks(detail_page.links) = {} THEN ""
            ELSE detail_page.links[Min(ExternalLinks(detail_page.links))].href

\* The phone label as the pattern spells it: "Tel.:" and a blank.
TelLabels(content) ==
    {k \in 1..Len(content) :
        content[k] = "Tel.:" /\ k < Len(content) /\ content[k + 1] = " "}

FaxLabelsAfter(content, k) == {m \in (k + 1)..Len(content) : content[m] = "Fax"}

\* C19: with the phone label in the text, the phone is the cleaned text
\* between the (first) phone label and the next fax label; without the
\* phone label the phone stays empty.
C19_PhoneUpToFaxLabel ==
    contact.done =>
        LET c == detail_page.content
            tel == TelLabels(c)
        IN IF tel = {} THEN contact.Telefon = <<>>
           ELSE FaxLabelsAfter(c, Min(tel)) # {} =>
                   contact.Telefon =
                       clean_text(SubSeq(c, Min(tel) + 1,
                                         Min(FaxLabelsAfter(c, Min(tel))) - 1))

\* C21: a report over s >= 1 successful records and f failed items gives
\* the success rate 100 * s / (s + f), a value between 0 and 100.
C21_SuccessRate ==
    report.status = "saved" =>
        /\ report.success_rate =
              Hundredths(Len(items), Len(items) + stats_collector.failed_items)
        /\ report.success_rate >= 0
        /\ report.success_rate <= 10000

====
